---------------------------- MODULE Spec2Model ----------------------------
(***************************************************************************)
(* Model of the forecast normalisation logic of quartz-api:                *)
(*   - the data platform backend's predicted-power fetch (horizon          *)
(*     resolution, forecaster selection, conversion of the timeseries),    *)
(*   - the substation forecast (GSP forecast scaled by capacity ratio),    *)
(*   - the smoothing of a forecast series (pandas rolling means),          *)
(*   - the resampling of generation data into time buckets, on its own and *)
(*     through the generation route,                                       *)
(*   - the forecast route over the quartzdb backend (conversion of the     *)
(*     stored rows, optional smoothing),                                   *)
(*   - the comparison of a forecast with the actual generation,            *)
(*   - the site operations of both backends (access check, forecast,       *)
(*     generation, posting of generation values),                          *)
(*   - the request-logger middleware,                                      *)
(*   - the forecast of all substations at one timestamp.                   *)
(*                                                                         *)
(* Every handler is one action.  A behaviour is one call: Init draws the   *)
(* caller's arguments and the replies the backend will give, the action    *)
(* runs the handler on them and records what it returned, what it raised   *)
(* and which backend requests it made.                                     *)
(*                                                                         *)
(* Times are integers: minutes in the fetches, seconds where the code      *)
(* looks below the minute (resampling, comparison).  Python's None is the  *)
(* empty sequence and a present optional value x is <<x>>.  Floats are     *)
(* modelled by exact rationals [num, den] with den > 0.                    *)
(***************************************************************************)
EXTENDS Integers, Sequences, FiniteSets, TLC

VARIABLES
    pc,     \* "call": the handler has not run yet; "done": it has returned or raised
    op,     \* the handler this behaviour calls
    arg,    \* the arguments of the call and the replies of the backend
    ret     \* the outcome of the call (meaningful when pc = "done")

vars == <<pc, op, arg, ret>>

None == <<>>
Some(x) == <<x>>

----------------------------------------------------------------------------
(* Bounds of the model *)

MaxMinutes == 2         \* explicit horizons 0..MaxMinutes (and 540) are tried
MaxStart == 0           \* window starts 540..540+MaxStart
MaxForecasts == 3       \* forecasts in one GetLatestForecasts reply
MaxCreated == 1         \* creation times 0..MaxCreated of those forecasts

----------------------------------------------------------------------------
(* Arithmetic helpers *)

\* int(num / den) of Python for den > 0: truncation toward zero
IntTrunc(num, den) ==
    IF num >= 0 THEN num \div den ELSE -((-num) \div den)

----------------------------------------------------------------------------
(* models.ForecastHorizon *)

ForecastHorizon == {"latest", "horizon", "day_ahead"}

----------------------------------------------------------------------------
(* dataplatform.Client._get_predicted_power_production_for_location *)

\* a resolution that drops the caller's minutes in mode horizon
ResolveHorizonMinutesDropsExplicit(forecast_horizon, forecast_horizon_minutes) ==
    IF forecast_horizon = "day_ahead" /\ forecast_horizon_minutes # None
    THEN 9 * 60
    ELSE 0

\* the value of forecast_horizon_minutes after the if/elif of lines 384-390
ResolveHorizonMinutes(forecast_horizon, forecast_horizon_minutes) ==
    IF forecast_horizon = "latest" \/ forecast_horizon_minutes = None
    THEN 0
    ELSE IF forecast_horizon = "day_ahead"
         THEN 9 * 60
         ELSE forecast_horizon_minutes[1]

\* a sort step that is not stable: f goes in front of the elements with its key
InsertByCreatedDescUnstable(sorted, f) ==
    LET k == Cardinality({i \in 1..Len(sorted) :
                 sorted[i].created_timestamp_utc > f.created_timestamp_utc})
    IN  SubSeq(sorted, 1, k) \o <<f>> \o SubSeq(sorted, k + 1, Len(sorted))

\* one step of list.sort(key=created_timestamp_utc, reverse=True): the sort is
\* stable, so f goes behind every element whose key is >= its own
InsertByCreatedDesc(sorted, f) ==
    LET k == Cardinality({i \in 1..Len(sorted) :
                 sorted[i].created_timestamp_utc >= f.created_timestamp_utc})
    IN  SubSeq(sorted, 1, k) \o <<f>> \o SubSeq(sorted, k + 1, Len(sorted))

RECURSIVE SortForecasts(_)
SortForecasts(forecasts) ==
    IF forecasts = <<>>
    THEN <<>>
    ELSE InsertByCreatedDesc(SortForecasts(SubSeq(forecasts, 1, Len(forecasts) - 1)),
                             forecasts[Len(forecasts)])

\* models.PredictedPower built from one GetForecastAsTimeseries value
ToPredictedPower(value) ==
    [Time        |-> value.target_timestamp_utc,
     PowerKW     |-> IntTrunc(value.effective_capacity_watts * value.p50_value_fraction.num,
                              value.p50_value_fraction.den * 1000),
     CreatedTime |-> value.created_timestamp_utc]

\* _check_user_access: the ListLocations request and whether it raises
CheckUserAccess(a) ==
    [reqs |-> <<[rpc |-> "list_locations", user_oauth_id_filter |-> a.oauth_id]>>,
     err  |-> IF a.locations_visible THEN "none" ELSE "HTTPException404"]

\* an empty lookup reported as a failure
NoForecastsOutcomeRaises(reqs) ==
    [values |-> <<>>, err |-> "HTTPException404", reqs |-> reqs]

\* "if len(resp.forecasts) == 0: return []"
NoForecastsOutcome(reqs) ==
    [values |-> <<>>, err |-> "none", reqs |-> reqs]

\* The whole handler.  a.oauth_id, a.forecast_horizon, a.forecast_horizon_minutes
\* are the arguments, a.start is get_window()'s start, the rest are the replies
\* of the data platform.
GetPredictedPowerProductionForLocation(a) ==
    LET access == IF a.oauth_id # None
                  THEN CheckUserAccess(a)
                  ELSE [reqs |-> <<>>, err |-> "none"]
        minutes == ResolveHorizonMinutes(a.forecast_horizon, a.forecast_horizon_minutes)
        latest_req == [rpc |-> "get_latest_forecasts",
                       pivot_timestamp_utc |-> a.start - minutes]
        sorted == SortForecasts(a.latest_forecasts)
        series_req == [rpc |-> "get_forecast_as_timeseries",
                       horizon_mins |-> minutes,
                       start_timestamp_utc |-> a.start,
                       forecaster |-> sorted[1].forecaster]
    IN  IF access.err # "none"
        THEN [values |-> <<>>, err |-> access.err, reqs |-> access.reqs]
        ELSE IF Len(a.latest_forecasts) = 0
        THEN NoForecastsOutcome(access.reqs \o <<latest_req>>)
        ELSE [values |-> [i \in 1..Len(a.forecast_values) |->
                              ToPredictedPower(a.forecast_values[i])],
              err    |-> "none",
              reqs   |-> access.reqs \o <<latest_req, series_req>>]

----------------------------------------------------------------------------
(* Inputs of the predicted-power fetch *)

\* sequences over S of length 0..n
SeqUpTo(S, n) == UNION {[1..k -> S] : k \in 0..n}

HorizonMinutes == {None} \cup {Some(m) : m \in (0..MaxMinutes) \cup {9 * 60}}

StartTimes == (9 * 60)..(9 * 60 + MaxStart)

Forecasters == {"fc_a", "fc_b"}

LatestForecast ==
    [forecaster : Forecasters, created_timestamp_utc : 0..MaxCreated]

Fraction == {[num |-> 1, den |-> 2], [num |-> 1, den |-> 1]}

\* the fractions a timeseries reply may hold: p50_value_fraction is a float,
\* and nothing in the client restricts its sign
RawFraction == Fraction \cup {[num |-> -1, den |-> 2]}

\* the timeseries replies tried for the fetch: none, or one value
ForecastValue ==
    [target_timestamp_utc : {9 * 60}, p50_value_fraction : RawFraction,
     effective_capacity_watts : {3000}, created_timestamp_utc : {0}]

PredictedArgs ==
    [oauth_id : {None, Some("user")},
     locations_visible : BOOLEAN,
     forecast_horizon : ForecastHorizon,
     forecast_horizon_minutes : HorizonMinutes,
     start : StartTimes,
     latest_forecasts : SeqUpTo(LatestForecast, MaxForecasts),
     forecast_values : SeqUpTo(ForecastValue, 1)]

----------------------------------------------------------------------------
(* The predicted-power fetch as a state machine *)

NoRet == [values |-> <<>>, err |-> "none", reqs |-> <<>>]

InitPredicted ==
    /\ pc = "call"
    /\ op = "get_predicted_power_production_for_location"
    /\ arg \in PredictedArgs
    /\ ret = NoRet

CallPredicted ==
    /\ pc = "call"
    /\ op = "get_predicted_power_production_for_location"
    /\ ret' = GetPredictedPowerProductionForLocation(arg)
    /\ pc' = "done"
    /\ UNCHANGED <<op, arg>>

NextPredicted == CallPredicted

SpecPredicted == InitPredicted /\ [][NextPredicted]_vars

----------------------------------------------------------------------------
(* Rationals: the values of Python floats, computed exactly *)

Rat(n, d) == [num |-> n, den |-> d]
RatAdd(x, y) == Rat(x.num * y.den + y.num * x.den, x.den * y.den)
RatDivInt(x, k) == Rat(x.num, x.den * k)
RatMulInt(k, x) == Rat(k * x.num, x.den)
RatEq(x, y) == x.num * y.den = y.num * x.den
RatTrunc(x) == IntTrunc(x.num, x.den)

----------------------------------------------------------------------------
(* middleware.auth.get_oauth_id_from_sub *)

\* auth0_sub is modelled by the sequence of its parts between "|" characters
get_oauth_id_from_sub(auth0_sub) ==
    IF Len(auth0_sub) = 1 THEN auth0_sub[1] ELSE auth0_sub[2]

----------------------------------------------------------------------------
(* dataplatform.Client.get_substation_forecast *)

\* a scale factor with the two capacities swapped
ScaleFactorInverted(substation, gsp) ==
    Rat(gsp.effective_capacity_watts, substation.effective_capacity_watts)

\* substation.effective_capacity_watts / gsp.effective_capacity_watts, for a
\* divisor that is not zero
ScaleFactor(substation, gsp) ==
    Rat(substation.effective_capacity_watts, gsp.effective_capacity_watts)

\* "for value in forecast: value.PowerKW = value.PowerKW * scale_factor"
ScaleForecast(forecast, scale_factor) ==
    [i \in 1..Len(forecast) |->
        [forecast[i] EXCEPT !.PowerKW = RatMulInt(@, scale_factor)]]

\* The outcome of a transformation of a series:
\*   values       the elements of the list it returns
\*   err          the error it raises ("none": it returns)
\*   input_after  the elements of the list it was given, after the call
\*   same_list    whether the list it returns is the list object it was given
Outcome(values, err, input_after, same_list) ==
    [values |-> values, err |-> err, input_after |-> input_after,
     same_list |-> same_list]

\* Lines 277-289: the division, the loop that overwrites PowerKW of every
\* element of forecast, and "return forecast".
ScaleToSubstation(forecast, substation, gsp) ==
    IF gsp.effective_capacity_watts = 0
    THEN Outcome(<<>>, "ZeroDivisionError", forecast, FALSE)
    ELSE LET scaled == ScaleForecast(forecast, ScaleFactor(substation, gsp))
         IN  Outcome(scaled, "none", scaled, TRUE)

\* The whole handler.  a.sub is authdata.get("sub"), a.substations and a.gsps
\* are the replies to the two ListLocations requests, the other fields are what
\* the predicted-power fetch for the GSP sees.  ret.forecast is the list the
\* fetch returned, as it was returned.
GetSubstationForecast(a) ==
    LET oauth_id == IF a.sub # None
                    THEN Some(get_oauth_id_from_sub(a.sub[1]))
                    ELSE None
        sub_req == [rpc |-> "list_locations", location_type_filter |-> "PRIMARY_SUBSTATION"]
        gsp_req == [rpc |-> "list_locations", location_type_filter |-> "GSP"]
        fetched == GetPredictedPowerProductionForLocation(
                       [oauth_id |-> oauth_id,
                        locations_visible |-> a.locations_visible,
                        forecast_horizon |-> "latest",
                        forecast_horizon_minutes |-> None,
                        start |-> a.start,
                        latest_forecasts |-> a.latest_forecasts,
                        forecast_values |-> a.forecast_values])
        scaled == ScaleToSubstation(fetched.values, a.substations[1], a.gsps[1])
        Raised(err, reqs) ==
            [values |-> <<>>, err |-> err, reqs |-> reqs, scaling |-> FALSE,
             forecast |-> <<>>, input_after |-> <<>>, same_list |-> FALSE]
    IN  IF Len(a.substations) = 0
        THEN Raised("HTTPException404", <<sub_req>>)
        ELSE IF Len(a.gsps) = 0
        THEN Raised("HTTPException404", <<sub_req, gsp_req>>)
        ELSE IF fetched.err # "none"
        THEN Raised(fetched.err, <<sub_req, gsp_req>> \o fetched.reqs)
        ELSE [values      |-> scaled.values,
              err         |-> scaled.err,
              reqs        |-> <<sub_req, gsp_req>> \o fetched.reqs,
              scaling     |-> TRUE,
              forecast    |-> fetched.values,
              input_after |-> scaled.input_after,
              same_list   |-> scaled.same_list]

----------------------------------------------------------------------------
(* Inputs of the substation forecast *)

MaxCapacityKW == 2      \* capacities 0, 1000, .. 1000*MaxCapacityKW watts
MaxSeries == 2          \* values in one GetForecastAsTimeseries reply

\* a ListLocations reply: no location, or one with its capacity
LocationsReply ==
    SeqUpTo([effective_capacity_watts : {1000 * k : k \in 0..MaxCapacityKW}], 1)

GspForecastValue ==
    [target_timestamp_utc : {9 * 60, 9 * 60 + 30}, p50_value_fraction : Fraction,
     effective_capacity_watts : {3000}, created_timestamp_utc : 0..MaxCreated]

SubstationArgs ==
    [sub : {None, Some(<<"auth0", "user">>)},
     substations : LocationsReply,
     gsps : LocationsReply,
     locations_visible : BOOLEAN,
     start : {9 * 60},
     latest_forecasts : SeqUpTo([forecaster : {"fc_a"}, created_timestamp_utc : {0}], 1),
     forecast_values : SeqUpTo(GspForecastValue, MaxSeries)]

----------------------------------------------------------------------------
(* The substation forecast as a state machine *)

InitSubstation ==
    /\ pc = "call"
    /\ op = "get_substation_forecast"
    /\ arg \in SubstationArgs
    /\ ret = NoRet

CallSubstation ==
    /\ pc = "call"
    /\ op = "get_substation_forecast"
    /\ ret' = GetSubstationForecast(arg)
    /\ pc' = "done"
    /\ UNCHANGED <<op, arg>>

NextSubstation == CallSubstation

SpecSubstation == InitSubstation /\ [][NextSubstation]_vars

----------------------------------------------------------------------------
(* quartzdb.smooth.smooth_forecast *)

Reverse(xs) == [i \in 1..Len(xs) |-> xs[Len(xs) + 1 - i]]

RECURSIVE SumRange(_, _, _)
SumRange(xs, lo, hi) == IF lo > hi THEN 0 ELSE xs[lo] + SumRange(xs, lo + 1, hi)

RECURSIVE SortedSeq(_)
SortedSeq(S) ==
    IF S = {}
    THEN <<>>
    ELSE LET m == CHOOSE x \in S : \A y \in S : x <= y
         IN  <<m>> \o SortedSeq(S \ {m})

Range(xs) == {xs[i] : i \in 1..Len(xs)}

\* how often label t occurs in an index
Count(index, t) == Cardinality({i \in 1..Len(index) : index[i] = t})

\* the row of label t in an index that holds it once
RowOf(index, t) == CHOOSE i \in 1..Len(index) : index[i] = t

RollingWindow == 4

\* a rolling mean whose window is one row too short
RollingMeanShortWindow(xs) ==
    [i \in 1..Len(xs) |->
        LET lo == IF i > RollingWindow - 1 THEN i - RollingWindow + 2 ELSE 1
        IN  Rat(SumRange(xs, lo, i), i - lo + 1)]

\* df.rolling(4, min_periods=1).mean() of one column: row i is the mean of
\* the rows max(1, i-3)..i, in the order of the frame's rows
RollingMean(xs) ==
    [i \in 1..Len(xs) |->
        LET lo == IF i > RollingWindow THEN i - RollingWindow + 1 ELSE 1
        IN  Rat(SumRange(xs, lo, i), i - lo + 1)]

\* frame_a + frame_b of pandas, for two one-column frames with the same set of
\* labels: rows are paired by position when the two indexes are equal; else
\* the indexes are outer-joined: with unique labels the result has the sorted
\* labels and each row adds the two rows of its label; with repeated labels
\* every row of a label in one frame pairs with every row of it in the other.
\* (col is the result's column; it is left empty where only rows is used.)
AddFrames(index_a, a, index_b, b) ==
    IF index_a = index_b
    THEN [index |-> index_a,
          rows  |-> Len(index_a),
          col   |-> [i \in 1..Len(index_a) |-> RatAdd(a[i], b[i])]]
    ELSE IF \E t \in Range(index_a) : Count(index_a, t) > 1
    THEN [index |-> <<>>,
          rows  |-> SumRange([i \in 1..Len(index_a) |-> Count(index_b, index_a[i])],
                             1, Len(index_a)),
          col   |-> <<>>]
    ELSE LET index == SortedSeq(Range(index_a))
         IN  [index |-> index,
              rows  |-> Len(index),
              col   |-> [i \in 1..Len(index) |->
                            RatAdd(a[RowOf(index_a, index[i])],
                                   b[RowOf(index_b, index[i])])]]

\* a mean of the two passes that forgets the division
HalfNotDivided(x) == x

\* "/ 2.0"
Half(x) == RatDivInt(x, 2)

\* CreatedTime taken from the reversed list
CreatedTimeColumnReversed(values) ==
    [i \in 1..Len(values) |-> values[Len(values) + 1 - i].CreatedTime]

\* df["CreatedTime"] = [value.CreatedTime for value in values]: by position
CreatedTimeColumn(values) ==
    [i \in 1..Len(values) |-> values[i].CreatedTime]

\* a smoothing that writes the smoothed power back into the list it was given
SmoothInPlace(values, index, power, created) ==
    LET out == [i \in 1..Len(index) |->
                   [Time |-> index[i], PowerKW |-> power[i], CreatedTime |-> created[i]]]
    IN  Outcome(out, "none", out, TRUE)

\* lines 27-35: a new list of new PredictedPower objects, one per row
SmoothResult(values, index, power, created) ==
    Outcome([i \in 1..Len(index) |->
                [Time |-> index[i], PowerKW |-> power[i], CreatedTime |-> created[i]]],
            "none", values, FALSE)

\* The whole function.  Assigning the CreatedTime column raises ValueError when
\* the frame does not have len(values) rows.
smooth_forecast(values) ==
    LET times == [i \in 1..Len(values) |-> values[i].Time]
        powers == [i \in 1..Len(values) |-> values[i].PowerKW]
        df == AddFrames(times, RollingMean(powers),
                        Reverse(times), RollingMean(Reverse(powers)))
        power_kw == [i \in 1..Len(df.col) |-> RatTrunc(Half(df.col[i]))]
    IN  IF df.rows # Len(values)
        THEN Outcome(<<>>, "ValueError", values, FALSE)
        ELSE SmoothResult(values, df.index, power_kw, CreatedTimeColumn(values))

----------------------------------------------------------------------------
(* Inputs of the smoothing *)

MaxLen == 5             \* length of the series sorted by time
MaxShort == 3           \* length of the series in any order, repeats included

SmoothPowers == {-3, 0, 7}
SmoothCreated == {0, 1}

\* the series with the times ts, in that order
SeriesWithTimes(ts) ==
    {[i \in 1..Len(ts) |-> [Time |-> ts[i], PowerKW |-> ps[i], CreatedTime |-> cs[i]]] :
        ps \in [1..Len(ts) -> SmoothPowers], cs \in [1..Len(ts) -> SmoothCreated]}

\* values is a series with strictly ascending times out of 1..MaxLen
IsSortedSeries(values) ==
    \E T \in SUBSET (1..MaxLen) : values \in SeriesWithTimes(SortedSeq(T))

\* values is a short series with any times out of 1..MaxShort
IsShortSeries(values) ==
    \E n \in 0..MaxShort :
        values \in [1..n -> [Time : 1..MaxShort, PowerKW : {0, 7},
                             CreatedTime : SmoothCreated]]

----------------------------------------------------------------------------
(* The smoothing as a state machine *)

InitSmooth ==
    /\ pc = "call"
    /\ op = "smooth_forecast"
    /\ IsSortedSeries(arg) \/ IsShortSeries(arg)
    /\ ret = NoRet

CallSmooth ==
    /\ pc = "call"
    /\ op = "smooth_forecast"
    /\ ret' = smooth_forecast(arg)
    /\ pc' = "done"
    /\ UNCHANGED <<op, arg>>

NextSmooth == CallSmooth

SpecSmooth == InitSmooth /\ [][NextSmooth]_vars

----------------------------------------------------------------------------
(* regions._resample.resample_generation.  Times are in seconds here and in *)
(* the routes below.                                                        *)

\* math.floor(x / y) for y # 0
FloorDiv(x, y) == IF y > 0 THEN x \div y ELSE (-x) \div (-y)

\* the start of the bucket of a sample
BucketTime(value, interval_seconds) ==
    FloorDiv(value.Time, interval_seconds) * interval_seconds

\* a bucket value that is the sum of the samples, not their mean
BucketSumNotAveraged(values, interval_seconds, bucket_time) ==
    LET member(i) == BucketTime(values[i], interval_seconds) = bucket_time
    IN  Rat(SumRange([i \in 1..Len(values) |->
                         IF member(i) THEN values[i].PowerKW ELSE 0], 1, Len(values)),
            1)

\* a bucket value that is the first sample put into the bucket
BucketFirstSample(values, interval_seconds, bucket_time) ==
    LET members == {i \in 1..Len(values) :
                       BucketTime(values[i], interval_seconds) = bucket_time}
        first == CHOOSE i \in members : \A j \in members : i <= j
    IN  Rat(values[first].PowerKW, 1)

\* sum(buckets[bucket_time]) / len(buckets[bucket_time])
BucketMean(values, interval_seconds, bucket_time) ==
    LET member(i) == BucketTime(values[i], interval_seconds) = bucket_time
    IN  Rat(SumRange([i \in 1..Len(values) |->
                         IF member(i) THEN values[i].PowerKW ELSE 0], 1, Len(values)),
            Cardinality({i \in 1..Len(values) : member(i)}))

\* a resampling that lets a negative mean through
ClampNothing(avg_power) == avg_power

\* "if avg_power < 0: avg_power = 0.0"
ClampNegative(avg_power) == IF avg_power.num < 0 THEN Rat(0, 1) ELSE avg_power

\* a resampling that emits its buckets latest first
ResampleResultDescending(values, points) ==
    Outcome(Reverse(points), "none", values, FALSE)

\* lines 27-35: the points go into a new list
ResampleResult(values, points) == Outcome(points, "none", values, FALSE)

\* The whole function.  An interval of zero makes ts / interval_seconds raise.
resample_generation(values, interval_minutes) ==
    LET interval_seconds == interval_minutes * 60
        bucket_times == SortedSeq({BucketTime(values[i], interval_seconds) :
                                      i \in 1..Len(values)})
    IN  IF Len(values) = 0
        THEN ResampleResult(values, <<>>)
        ELSE IF interval_seconds = 0
        THEN Outcome(<<>>, "ZeroDivisionError", values, FALSE)
        ELSE ResampleResult(values,
                 [k \in 1..Len(bucket_times) |->
                     [Time    |-> bucket_times[k],
                      PowerKW |-> ClampNegative(
                          BucketMean(values, interval_seconds, bucket_times[k]))]])

----------------------------------------------------------------------------
(* service.regions.router *)

\* a route that hands the caller's smooth_flag to the backend as it came
SmoothFlagPassedThrough(forecast_horizon, smooth_flag) == smooth_flag

\* "if forecast_horizon == models.ForecastHorizon.day_ahead: smooth_flag = False"
SmoothFlagForHorizon(forecast_horizon, smooth_flag) ==
    IF forecast_horizon = "day_ahead" THEN FALSE ELSE smooth_flag

\* get_forecast_timeseries_route: the call of the backend and what comes back.
\* db is the backend's reply [values, err]; an exception of the backend becomes
\* an HTTPException 500.  Day-ahead forecasts are requested unsmoothed.
get_forecast_timeseries_route(forecast_horizon, forecast_horizon_minutes, smooth_flag, db) ==
    LET db_call == [forecast_horizon |-> forecast_horizon,
                    forecast_horizon_minutes |-> forecast_horizon_minutes,
                    smooth_flag |-> SmoothFlagForHorizon(forecast_horizon, smooth_flag)]
    IN  IF db.err # "none"
        THEN [values |-> <<>>, err |-> "HTTPException500", db_call |-> db_call]
        ELSE [values |-> db.values, err |-> "none", db_call |-> db_call]

\* get_historic_timeseries_route: values measured before now, resampled first
\* when resample_minutes is given
get_historic_timeseries_route(resample_minutes, now, db) ==
    LET resampled == IF resample_minutes # None
                     THEN resample_generation(db.values, resample_minutes[1])
                     ELSE Outcome(db.values, "none", db.values, TRUE)
        kept == SelectSeq(resampled.values, LAMBDA y : y.Time < now)
    IN  IF db.err # "none"
        THEN [values |-> <<>>, err |-> "HTTPException500"]
        ELSE IF resampled.err # "none"
        THEN [values |-> <<>>, err |-> resampled.err]
        ELSE [values |-> kept, err |-> "none"]

\* a lookup by the time as it is, to the second
TruncMinuteKeepsSeconds(time) == time

\* Time.replace(second=0, microsecond=0)
TruncMinute(time) == time - (time % 60)

\* the last sample of a minute: later entries of the dict comprehension
\* replace earlier ones with the same key
ActualAt(actuals, rounded_time) ==
    LET hits == {i \in 1..Len(actuals) : TruncMinute(actuals[i].Time) = rounded_time}
    IN  IF hits = {}
        THEN None
        ELSE Some(actuals[CHOOSE i \in hits : \A j \in hits : j <= i])

\* an absolute value that keeps the sign
AbsKeepsSign(x) == x

\* abs(error_kw)
Abs(x) == IF x < 0 THEN -x ELSE x

\* a percent error that is computed for every actual power but zero
PercentErrorUnguarded(error_kw, actual) ==
    IF actual # None /\ actual[1].PowerKW # 0
    THEN Some(Rat(error_kw[1] * 100, actual[1].PowerKW))
    ELSE None

\* lines 310-314: "(error_kw / actual.PowerKW * 100) if actual and
\* actual.PowerKW > 0 else None"
PercentError(error_kw, actual) ==
    IF actual # None /\ actual[1].PowerKW > 0
    THEN Some(Rat(error_kw[1] * 100, actual[1].PowerKW))
    ELSE None

\* one models.ForecastActualComparison (lines 296-316)
Comparison(forecast, actuals) ==
    LET actual == ActualAt(actuals, TruncMinute(forecast.Time))
        error_kw == IF actual # None
                    THEN Some(forecast.PowerKW - actual[1].PowerKW)
                    ELSE None
    IN  [time                  |-> forecast.Time,
         forecast_power_kw     |-> forecast.PowerKW,
         actual_power_kw       |-> IF actual # None THEN Some(actual[1].PowerKW) ELSE None,
         error_kw              |-> error_kw,
         absolute_error_kw     |-> IF error_kw # None THEN Some(Abs(error_kw[1])) ELSE None,
         percent_error         |-> PercentError(error_kw, actual),
         forecast_created_time |-> forecast.CreatedTime]

\* a sort step that leaves the comparisons in the order of the forecast
InsertAtEnd(sorted, c) == sorted \o <<c>>

\* one step of comparisons.sort(key=time): stable, ascending
InsertByTime(sorted, c) ==
    LET k == Cardinality({i \in 1..Len(sorted) : sorted[i].time <= c.time})
    IN  SubSeq(sorted, 1, k) \o <<c>> \o SubSeq(sorted, k + 1, Len(sorted))

RECURSIVE SortComparisons(_)
SortComparisons(comparisons) ==
    IF comparisons = <<>>
    THEN <<>>
    ELSE InsertByTime(SortComparisons(SubSeq(comparisons, 1, Len(comparisons) - 1)),
                      comparisons[Len(comparisons)])

\* a minimum that is the first value, whatever the others are
MinOfFirst(xs) == xs[1]

\* max(abs_errors), min(abs_errors)
MaxOf(xs) == CHOOSE x \in Range(xs) : \A y \in Range(xs) : y <= x
MinOf(xs) == CHOOSE x \in Range(xs) : \A y \in Range(xs) : x <= y

\* a summary of zeros where no comparison is matched
SummaryOfZeros(comparisons, include_summary) ==
    LET valid == SelectSeq(comparisons, LAMBDA c : c.error_kw # None)
        errors == [i \in 1..Len(valid) |-> valid[i].error_kw[1]]
        abs_errors == [i \in 1..Len(valid) |-> Abs(errors[i])]
        n == Len(errors)
    IN  IF include_summary
        THEN Some([mae_kw          |-> Rat(SumRange(abs_errors, 1, n), IF n > 0 THEN n ELSE 1),
                   me_kw           |-> Rat(SumRange(errors, 1, n), IF n > 0 THEN n ELSE 1),
                   rmse_kw_squared |-> Rat(SumRange([i \in 1..n |-> errors[i] * errors[i]],
                                                    1, n), IF n > 0 THEN n ELSE 1),
                   max_error_kw    |-> IF n > 0 THEN MaxOf(abs_errors) ELSE 0,
                   min_error_kw    |-> IF n > 0 THEN MinOf(abs_errors) ELSE 0,
                   sample_count    |-> n])
        ELSE None

\* lines 321-335; rmse_kw is the square root of rmse_kw_squared
Summary(comparisons, include_summary) ==
    LET valid == SelectSeq(comparisons, LAMBDA c : c.error_kw # None)
        errors == [i \in 1..Len(valid) |-> valid[i].error_kw[1]]
        abs_errors == [i \in 1..Len(valid) |-> Abs(errors[i])]
        n == Len(errors)
    IN  IF include_summary /\ n > 0
        THEN Some([mae_kw          |-> Rat(SumRange(abs_errors, 1, n), n),
                   me_kw           |-> Rat(SumRange(errors, 1, n), n),
                   rmse_kw_squared |-> Rat(SumRange([i \in 1..n |-> errors[i] * errors[i]],
                                                    1, n), n),
                   max_error_kw    |-> MaxOf(abs_errors),
                   min_error_kw    |-> MinOf(abs_errors),
                   sample_count    |-> n])
        ELSE None

\* a filter that keeps the forecast point of the present moment
ElapsedForecastsIncludingNow(values, now) ==
    SelectSeq(values, LAMBDA f : f.Time <= now)

\* "[f for f in forecast_response.values if f.Time < now]"
ElapsedForecasts(values, now) ==
    SelectSeq(values, LAMBDA f : f.Time < now)

\* the response of get_forecast_vs_actual: comparisons is a new list, the two
\* lists compared (forecast, actual) are only read
CompareResult(forecast, actual, comparisons, summary) ==
    [values |-> comparisons, summary |-> summary, err |-> "none",
     forecast |-> forecast, actual |-> actual,
     input_after |-> <<forecast, actual>>, same_list |-> FALSE]

\* The whole route.  a.predicted and a.generation are the backend's replies
\* [values, err]; a.now is the clock.
get_forecast_vs_actual(a) ==
    LET forecast_response ==
            get_forecast_timeseries_route(
                IF a.forecast_horizon_minutes # None /\ a.forecast_horizon_minutes[1] # 0
                THEN "horizon" ELSE "latest",
                a.forecast_horizon_minutes, FALSE, a.predicted)
        generation_response == get_historic_timeseries_route(None, a.now, a.generation)
        forecast_values == ElapsedForecasts(forecast_response.values, a.now)
        comparisons == SortComparisons(
            [i \in 1..Len(forecast_values) |->
                Comparison(forecast_values[i], generation_response.values)])
        Raised(err) ==
            [values |-> <<>>, summary |-> None, err |-> err,
             forecast |-> <<>>, actual |-> <<>>,
             input_after |-> <<<<>>, <<>>>>, same_list |-> FALSE]
    IN  IF forecast_response.err # "none"
        THEN Raised(forecast_response.err)
        ELSE IF generation_response.err # "none"
        THEN Raised(generation_response.err)
        ELSE CompareResult(forecast_response.values, generation_response.values,
                           comparisons, Summary(comparisons, a.include_summary))

----------------------------------------------------------------------------
(* Inputs of the resampling and of the comparison *)

MaxActuals == 3         \* samples given to the resampling
MaxInterval == 2        \* intervals -1..MaxInterval minutes
MaxCompared == 2        \* forecast points, and samples, given to the comparison

ActualSample == [Time : {0, 30, 60, 119, 120}, PowerKW : {-2, 1, 4}]

\* forecast points on and off the whole minute; samples at the end of the
\* first minute and at the start of the second, with power below, at and
\* above zero
ComparedForecast == [Time : {0, 30, 60}, PowerKW : {1, 5}, CreatedTime : {0}]
ComparedActual == [Time : {59, 60}, PowerKW : {-1, 0, 3}]

BackendErrors == {"none", "HTTPException404"}

\* what a backend raises: not found, access denied, a failure of the transport
BackendFailures == {"HTTPException404", "HTTPException403", "GRPCError"}

----------------------------------------------------------------------------
(* The transformations of a series as one state machine: the scaling of the *)
(* substation forecast, the smoothing, the resampling, the comparison       *)

InitResample ==
    /\ pc = "call"
    /\ op = "resample_generation"
    /\ \E n \in 0..MaxActuals :
          arg \in [values : [1..n -> ActualSample],
                   interval_minutes : -1..MaxInterval]
    /\ ret = NoRet

CallResample ==
    /\ pc = "call"
    /\ op = "resample_generation"
    /\ ret' = resample_generation(arg.values, arg.interval_minutes)
    /\ pc' = "done"
    /\ UNCHANGED <<op, arg>>

InitCompare ==
    /\ pc = "call"
    /\ op = "get_forecast_vs_actual"
    /\ \/ \E n \in 0..MaxCompared, m \in 0..MaxCompared :
             arg \in [predicted : [values : [1..n -> ComparedForecast], err : {"none"}],
                      generation : [values : [1..m -> ComparedActual], err : {"none"}],
                      forecast_horizon_minutes : {None, Some(30)},
                      include_summary : BOOLEAN,
                      now : {60, 121}]
       \/ arg \in [predicted : [values : {<<>>}, err : BackendErrors],
                    generation : [values : {<<>>}, err : BackendErrors],
                    forecast_horizon_minutes : {None, Some(0), Some(30)},
                    include_summary : BOOLEAN,
                    now : {60}]
    /\ ret = NoRet

CallCompare ==
    /\ pc = "call"
    /\ op = "get_forecast_vs_actual"
    /\ ret' = get_forecast_vs_actual(arg)
    /\ pc' = "done"
    /\ UNCHANGED <<op, arg>>

InitTransform == InitSubstation \/ InitSmooth \/ InitResample \/ InitCompare

NextTransform == CallSubstation \/ CallSmooth \/ CallResample \/ CallCompare

SpecTransform == InitTransform /\ [][NextTransform]_vars

\* the comparison on its own
NextCompare == CallCompare

SpecCompare == InitCompare /\ [][NextCompare]_vars

----------------------------------------------------------------------------
(* The resampling as a state machine: called on its own, and through the    *)
(* generation route                                                         *)

\* the samples of test_resample_generation_3_periods_with_gaps: 00:00, 00:08,
\* 00:22, 01:30, 01:31, 01:32 (in seconds), resampled to 15 minutes
ResampleExample ==
    [values |-> <<[Time |-> 0,    PowerKW |-> 1], [Time |-> 480,  PowerKW |-> 2],
                  [Time |-> 1320, PowerKW |-> 3], [Time |-> 5400, PowerKW |-> 4],
                  [Time |-> 5460, PowerKW |-> 5], [Time |-> 5520, PowerKW |-> 6]>>,
     interval_minutes |-> 15]

InitResampleExample ==
    /\ pc = "call"
    /\ op = "resample_generation"
    /\ arg = ResampleExample
    /\ ret = NoRet

\* GET /{source}/{region}/generation: db is the backend's reply [values, err]
InitHistoricRoute ==
    /\ pc = "call"
    /\ op = "get_historic_timeseries_route"
    /\ \/ \E n \in 0..MaxActuals :
             arg \in [resample_minutes : {None} \cup {Some(m) : m \in -1..MaxInterval},
                      now : {60, 121},
                      db : [values : [1..n -> ActualSample], err : {"none"}]]
       \/ arg \in [resample_minutes : {None, Some(1)},
                    now : {60},
                    db : [values : {<<>>}, err : BackendFailures]]
    /\ ret = NoRet

CallHistoricRoute ==
    /\ pc = "call"
    /\ op = "get_historic_timeseries_route"
    /\ ret' = get_historic_timeseries_route(arg.resample_minutes, arg.now, arg.db)
    /\ pc' = "done"
    /\ UNCHANGED <<op, arg>>

InitResampling == InitResample \/ InitResampleExample \/ InitHistoricRoute

NextResampling == CallResample \/ CallHistoricRoute

SpecResample == InitResampling /\ [][NextResampling]_vars

----------------------------------------------------------------------------
(* The forecast route over the quartzdb backend:                            *)
(* quartzdb.client.Client._get_predicted_power_production_for_location      *)

\* lines 74-85: what the backend asks the store for
QuartzdbHorizon(forecast_horizon, forecast_horizon_minutes) ==
    IF forecast_horizon = "day_ahead"
    THEN [day_ahead_hours                |-> Some(9),
          day_ahead_timezone_delta_hours |-> Some(Rat(11, 2)),
          forecast_horizon_minutes       |-> None]
    ELSE IF forecast_horizon = "horizon"
    THEN [day_ahead_hours                |-> None,
          day_ahead_timezone_delta_hours |-> None,
          forecast_horizon_minutes       |-> forecast_horizon_minutes]
    ELSE [day_ahead_hours                |-> None,
          day_ahead_timezone_delta_hours |-> None,
          forecast_horizon_minutes       |-> None]

\* lines 119-128: a ForecastValueSQL as PredictedPower; forecast_power_kw is a
\* float, negative values become 0, the others are cut to an int
QuartzdbToPredictedPower(value) ==
    [Time        |-> value.start_utc,
     PowerKW     |-> IF value.forecast_power_kw.num >= 0
                     THEN RatTrunc(value.forecast_power_kw)
                     ELSE 0,
     CreatedTime |-> value.created_utc]

\* The whole method.  a.site_found: the store knows a site of the location;
\* a.forecast_values: the rows the store returns for the site.
QuartzdbGetPredictedPowerProductionForLocation(a, smooth_flag) ==
    LET store_call == QuartzdbHorizon(a.forecast_horizon, a.forecast_horizon_minutes)
        out == [i \in 1..Len(a.forecast_values) |->
                   QuartzdbToPredictedPower(a.forecast_values[i])]
        smoothed == smooth_forecast(out)
    IN  IF ~a.site_found
        THEN [values |-> <<>>, err |-> "HTTPException204", store_call |-> None]
        ELSE IF smooth_flag
        THEN [values |-> smoothed.values, err |-> smoothed.err,
              store_call |-> Some(store_call)]
        ELSE [values |-> out, err |-> "none", store_call |-> Some(store_call)]

\* GET /{source}/{region}/forecast served by the quartzdb backend
ForecastRoute(a) ==
    get_forecast_timeseries_route(
        a.forecast_horizon, a.forecast_horizon_minutes, a.smooth_flag,
        QuartzdbGetPredictedPowerProductionForLocation(
            a, SmoothFlagForHorizon(a.forecast_horizon, a.smooth_flag)))

MaxRouteValues == 3     \* rows the store returns

ForecastPowers == {Rat(-1, 1), Rat(5, 2), Rat(9, 1)}

InitForecastRoute ==
    /\ pc = "call"
    /\ op = "get_forecast_timeseries_route"
    /\ \E fh \in ForecastHorizon, fhm \in {None, Some(30)}, sf \in BOOLEAN,
          found \in BOOLEAN, n \in 0..MaxRouteValues :
          \E ps \in [1..n -> ForecastPowers] :
              arg = [forecast_horizon         |-> fh,
                     forecast_horizon_minutes |-> fhm,
                     smooth_flag              |-> sf,
                     site_found               |-> found,
                     forecast_values          |->
                         [i \in 1..n |-> [start_utc |-> i, forecast_power_kw |-> ps[i],
                                          created_utc |-> 0]]]
    /\ ret = NoRet

CallForecastRoute ==
    /\ pc = "call"
    /\ op = "get_forecast_timeseries_route"
    /\ ret' = ForecastRoute(arg)
    /\ pc' = "done"
    /\ UNCHANGED <<op, arg>>

NextForecastRoute == CallForecastRoute

SpecForecastRoute == InitForecastRoute /\ [][NextForecastRoute]_vars

----------------------------------------------------------------------------
(* The site operations of the two backends: get_site_forecast,              *)
(* get_site_generation, post_site_generation                                *)

\* dataplatform get_site_forecast: the fetch for the site with authdata["sub"]
\* as oauth_id and the default horizon
DataplatformGetSiteForecast(a) ==
    GetPredictedPowerProductionForLocation(
        [oauth_id                 |-> Some(a.sub),
         locations_visible        |-> a.locations_visible,
         forecast_horizon         |-> "latest",
         forecast_horizon_minutes |-> None,
         start                    |-> a.start,
         latest_forecasts         |-> a.latest_forecasts,
         forecast_values          |-> a.forecast_values])

\* models.ActualPower built from one GetObservationsAsTimeseries value
ToActualPower(value) ==
    [Time    |-> value.timestamp_utc,
     PowerKW |-> IntTrunc(value.effective_capacity_watts * value.value_fraction.num,
                          value.value_fraction.den * 1000)]

\* dataplatform _get_actual_power_production_for_location
GetActualPowerProductionForLocation(a) ==
    LET access == IF a.oauth_id # None
                  THEN CheckUserAccess(a)
                  ELSE [reqs |-> <<>>, err |-> "none"]
        req == [rpc |-> "get_observations_as_timeseries",
                start_timestamp_utc |-> a.start]
    IN  IF access.err # "none"
        THEN [values |-> <<>>, err |-> access.err, reqs |-> access.reqs]
        ELSE [values |-> [i \in 1..Len(a.observations) |->
                              ToActualPower(a.observations[i])],
              err    |-> "none",
              reqs   |-> access.reqs \o <<req>>]

\* dataplatform get_site_generation
DataplatformGetSiteGeneration(a) ==
    GetActualPowerProductionForLocation(
        [oauth_id          |-> Some(a.sub),
         locations_visible |-> a.locations_visible,
         start             |-> a.start,
         observations      |-> a.observations])

\* an access check that lets every user through
CheckUserHasAccessToSiteOpen(a) ==
    [reqs |-> <<[rpc |-> "get_user_by_email", email |-> a.email]>>,
     err  |-> "none"]

\* quartzdb check_user_has_access_to_site: a.user_sites are the sites of the
\* user's location group
CheckUserHasAccessToSite(a) ==
    [reqs |-> <<[rpc |-> "get_user_by_email", email |-> a.email]>>,
     err  |-> IF a.site_uuid \in a.user_sites THEN "none" ELSE "HTTPException403"]

\* quartzdb get_site_forecast: a.rows are the forecast values of the site
QuartzdbGetSiteForecast(a) ==
    LET access == CheckUserHasAccessToSite(a)
    IN  IF access.err # "none"
        THEN [values |-> <<>>, err |-> access.err, reqs |-> access.reqs]
        ELSE [values |-> [i \in 1..Len(a.rows) |-> QuartzdbToPredictedPower(a.rows[i])],
              err    |-> "none",
              reqs   |-> access.reqs \o
                         <<[rpc |-> "get_site_by_uuid", site_uuid |-> a.site_uuid],
                           [rpc |-> "get_latest_forecast_values_by_site",
                            site_uuid |-> a.site_uuid]>>]

\* quartzdb get_site_generation: a.rows are the generation values of the site
QuartzdbGetSiteGeneration(a) ==
    LET access == CheckUserHasAccessToSite(a)
    IN  IF access.err # "none"
        THEN [values |-> <<>>, err |-> access.err, reqs |-> access.reqs]
        ELSE [values |-> [i \in 1..Len(a.rows) |->
                              [Time    |-> a.rows[i].start_utc,
                               PowerKW |-> IF a.rows[i].generation_power_kw.num >= 0
                                           THEN RatTrunc(a.rows[i].generation_power_kw)
                                           ELSE 0]],
              err    |-> "none",
              reqs   |-> access.reqs \o
                         <<[rpc |-> "get_pv_generation_by_sites",
                            site_uuid |-> a.site_uuid]>>]

\* a capacity check that looks at the first posted value only
ExceededCapacityFirstOnly(generation, site_capacity_kw, capacity_factor) ==
    {i \in {1} :
        generation[i].PowerKW * capacity_factor.den > site_capacity_kw * capacity_factor.num}

\* the rows with power_kw > site_capacity_kw * capacity_factor
ExceededCapacity(generation, site_capacity_kw, capacity_factor) ==
    {i \in 1..Len(generation) :
        generation[i].PowerKW * capacity_factor.den > site_capacity_kw * capacity_factor.num}

\* quartzdb post_site_generation.  a.capacity_factor is the value of
\* ERROR_GENERATION_CAPACITY_FACTOR (1.1 when unset).  The frame of an empty
\* list has no power_kw column, and selecting it raises KeyError.
QuartzdbPostSiteGeneration(a) ==
    LET access == CheckUserHasAccessToSite(a)
        site_req == [rpc |-> "get_site_by_uuid", site_uuid |-> a.site_uuid]
        rows == [i \in 1..Len(a.generation) |->
                    [start_utc |-> a.generation[i].Time,
                     power_kw  |-> a.generation[i].PowerKW,
                     site_uuid |-> a.site_uuid]]
        Failed(err, reqs) ==
            [values |-> <<>>, err |-> err, reqs |-> reqs,
             inserted |-> <<>>, committed |-> FALSE]
    IN  IF access.err # "none"
        THEN Failed(access.err, access.reqs)
        ELSE IF Len(a.generation) = 0
        THEN Failed("KeyError", access.reqs \o <<site_req>>)
        ELSE IF ExceededCapacity(a.generation, a.site_capacity_kw, a.capacity_factor) # {}
        THEN Failed("HTTPException422", access.reqs \o <<site_req>>)
        ELSE [values |-> <<>>, err |-> "none",
              reqs |-> access.reqs \o <<site_req, [rpc |-> "insert_generation_values"]>>,
              inserted |-> rows, committed |-> TRUE]

MaxSiteRows == 2        \* rows or observations the store returns for a site
MaxPosted == 2          \* generation values in one post

Sites == {"site_a", "site_b"}

ObservationValue ==
    [timestamp_utc : {9 * 60}, value_fraction : RawFraction,
     effective_capacity_watts : {3000}]

\* the posted powers, around the limits 11 (factor 1.1) and 20 (factor 2) of a
\* 10 kW site
PostedPowers == {10, 11, 12, 21}

CapacityFactors == {Rat(11, 10), Rat(2, 1)}

InitSiteForecast ==
    /\ pc = "call"
    /\ op = "get_site_forecast"
    /\ \/ \E visible \in BOOLEAN, lfs \in SeqUpTo(LatestForecast, 1),
             fvs \in SeqUpTo(ForecastValue, 1) :
             arg = [backend |-> "dataplatform", sub |-> "user",
                    locations_visible |-> visible, start |-> 9 * 60,
                    latest_forecasts |-> lfs, forecast_values |-> fvs]
       \/ \E site \in Sites, mine \in SUBSET Sites, n \in 0..MaxSiteRows :
             \E ps \in [1..n -> ForecastPowers] :
                 arg = [backend |-> "quartzdb", email |-> "user@test",
                        site_uuid |-> site, user_sites |-> mine,
                        rows |-> [i \in 1..n |->
                                     [start_utc |-> i, forecast_power_kw |-> ps[i],
                                      created_utc |-> 0]]]
    /\ ret = NoRet

InitSiteGeneration ==
    /\ pc = "call"
    /\ op = "get_site_generation"
    /\ \/ \E visible \in BOOLEAN, obs \in SeqUpTo(ObservationValue, MaxSiteRows) :
             arg = [backend |-> "dataplatform", sub |-> "user",
                    locations_visible |-> visible, start |-> 9 * 60,
                    observations |-> obs]
       \/ \E site \in Sites, mine \in SUBSET Sites, n \in 0..MaxSiteRows :
             \E ps \in [1..n -> ForecastPowers] :
                 arg = [backend |-> "quartzdb", email |-> "user@test",
                        site_uuid |-> site, user_sites |-> mine,
                        rows |-> [i \in 1..n |->
                                     [start_utc |-> i, generation_power_kw |-> ps[i]]]]
    /\ ret = NoRet

InitPostSiteGeneration ==
    /\ pc = "call"
    /\ op = "post_site_generation"
    /\ \E site \in Sites, mine \in SUBSET Sites, factor \in CapacityFactors,
          n \in 0..MaxPosted :
          \E ps \in [1..n -> PostedPowers] :
              arg = [backend |-> "quartzdb", email |-> "user@test",
                     site_uuid |-> site, user_sites |-> mine,
                     site_capacity_kw |-> 10, capacity_factor |-> factor,
                     generation |-> [i \in 1..n |-> [Time |-> i, PowerKW |-> ps[i]]]]
    /\ ret = NoRet

CallSiteForecast ==
    /\ pc = "call"
    /\ op = "get_site_forecast"
    /\ ret' = IF arg.backend = "dataplatform"
              THEN DataplatformGetSiteForecast(arg)
              ELSE QuartzdbGetSiteForecast(arg)
    /\ pc' = "done"
    /\ UNCHANGED <<op, arg>>

CallSiteGeneration ==
    /\ pc = "call"
    /\ op = "get_site_generation"
    /\ ret' = IF arg.backend = "dataplatform"
              THEN DataplatformGetSiteGeneration(arg)
              ELSE QuartzdbGetSiteGeneration(arg)
    /\ pc' = "done"
    /\ UNCHANGED <<op, arg>>

CallPostSiteGeneration ==
    /\ pc = "call"
    /\ op = "post_site_generation"
    /\ ret' = QuartzdbPostSiteGeneration(arg)
    /\ pc' = "done"
    /\ UNCHANGED <<op, arg>>

InitSites == InitSiteForecast \/ InitSiteGeneration \/ InitPostSiteGeneration

NextSites == CallSiteForecast \/ CallSiteGeneration \/ CallPostSiteGeneration

SpecSites == InitSites /\ [][NextSites]_vars

----------------------------------------------------------------------------
(* middleware/audit.py: RequestLoggerMiddleware.dispatch *)

\* The attributes of a RequestLoggerMiddleware instance: __init__ only calls
\* BaseHTTPMiddleware.__init__, which sets app and dispatch_func.
MiddlewareAttributes == {"app", "dispatch_func"}

\* lines 37-39: the path, with "?" and the query string when there is one;
\* a url is the sequence of its parts
AuditUrl(path, query) == IF query # "" THEN <<path, "?", query>> ELSE <<path>>

\* dispatch.  a.response: what call_next returns; a.db_instance: the
\* db_instance attribute of the application state, None when unset; a.auth:
\* request.state.auth, None when unset.  ret.saved are the calls of
\* save_api_call_to_db, ret.errors the failures caught and logged at lines
\* 46-47.  Line 45 reads self.db_client, not the local db_client.
Dispatch(a) ==
    LET response == a.response
        auth == IF a.auth = None THEN "{}" ELSE a.auth[1]
        url == AuditUrl(a.path, a.query)
    IN  IF a.method = "OPTIONS"
        THEN [response |-> response, saved |-> <<>>, errors |-> <<>>]
        ELSE IF a.db_instance = None
        THEN [response |-> response, saved |-> <<>>, errors |-> <<"RuntimeError">>]
        ELSE IF "db_client" \notin MiddlewareAttributes
        THEN [response |-> response, saved |-> <<>>, errors |-> <<"AttributeError">>]
        ELSE [response |-> response,
              saved    |-> <<[url |-> url, authdata |-> auth]>>,
              errors   |-> <<>>]

AuditRequests ==
    [method      : {"GET", "POST", "OPTIONS"},
     path        : {"/sites", "/v0/solar/GB/forecast"},
     query       : {"", "smooth=true"},
     auth        : {None, Some("user")},
     db_instance : {None, Some("quartzdb"), Some("dummydb")},
     response    : {200, 404, 500}]

InitAudit ==
    /\ pc = "call"
    /\ op = "dispatch"
    /\ arg \in AuditRequests
    /\ ret = NoRet

CallDispatch ==
    /\ pc = "call"
    /\ op = "dispatch"
    /\ ret' = Dispatch(arg)
    /\ pc' = "done"
    /\ UNCHANGED <<op, arg>>

NextAudit == CallDispatch

SpecAudit == InitAudit /\ [][NextAudit]_vars

----------------------------------------------------------------------------
(* service/substations/router.py: the forecast of all substations at one    *)
(* timestamp, served by the dataplatform backend.  A forecast_values_kw     *)
(* dict is a function from location uuids to rationals; a uuid is a pair    *)
(* <<kind, number>>.                                                        *)

RECURSIVE Pow10(_)
Pow10(n) == IF n = 0 THEN 1 ELSE 10 * Pow10(n - 1)

\* Python's round(x, ndigits) on the exact value: to the nearest multiple of
\* 10^-ndigits, a tie to the even one
Round(x, ndigits) ==
    LET scaled == x.num * Pow10(ndigits)
        q == scaled \div x.den
        r == scaled % x.den
    IN  Rat(IF 2 * r > x.den THEN q + 1
            ELSE IF 2 * r < x.den THEN q
            ELSE IF q % 2 = 0 THEN q ELSE q + 1,
            Pow10(ndigits))

\* dict d with d[key] = value
DictSet(d, key, value) ==
    [k \in DOMAIN d \cup {key} |-> IF k = key THEN value ELSE d[k]]

\* dataplatform get_forecast_for_multiple_locations_one_timestamp:
\* a.forecasters is the ListForecasters reply, a.forecast_at_timestamp the
\* values the data platform holds, of which the reply has those of the
\* requested locations.  The value of a location is
\* round(value_fraction * effective_capacity_watts / 10**3, 2).
GetForecastForMultipleLocationsOneTimestamp(location_uuids, a) ==
    LET requested == {location_uuids[i] : i \in DOMAIN location_uuids}
        values == SelectSeq(a.forecast_at_timestamp,
                            LAMBDA v : v.location_uuid \in requested)
        kw(v) == Round(Rat(v.value_fraction.num * v.effective_capacity_watts,
                           v.value_fraction.den * 1000), 2)
        last(u) == CHOOSE i \in DOMAIN values :
                       /\ values[i].location_uuid = u
                       /\ \A j \in DOMAIN values :
                              values[j].location_uuid = u => j <= i
    IN  IF Len(a.forecasters) = 0
        THEN [forecast_values_kw |-> <<>>, err |-> "IndexError"]
        ELSE [forecast_values_kw |->
                  [u \in {values[i].location_uuid : i \in DOMAIN values} |->
                      kw(values[last(u)])],
              err |-> "none"]

\* the first region with the gsp_id, None when there is none
FindGspRegion(gsp_regions, gsp_id) ==
    LET matches == {k \in DOMAIN gsp_regions : gsp_regions[k].gsp_id = gsp_id}
    IN  IF matches = {} THEN None
        ELSE Some(gsp_regions[CHOOSE k \in matches : \A j \in matches : k <= j])

\* step 4, for the substations from position i on: each substation with a
\* GSP region and a capacity other than 0 gets the GSP's forecast, 0.0 when
\* there is none, times capacity_kw / (effective_capacity_watts / 1000),
\* rounded to 3 digits
RECURSIVE AddSubstationForecasts(_, _, _, _)
AddSubstationForecasts(substations, gsp_regions, kw, i) ==
    IF i > Len(substations)
    THEN [forecast_values_kw |-> kw, err |-> "none"]
    ELSE LET substation == substations[i]
             found == FindGspRegion(gsp_regions, substation.gsp_id)
             gsp_region == found[1]
             gsp_forecast_value ==
                 IF gsp_region.location_uuid \in DOMAIN kw
                 THEN kw[gsp_region.location_uuid]
                 ELSE Rat(0, 1)
             substation_forecast_value ==
                 Round(Rat(gsp_forecast_value.num * substation.capacity_kw * 1000,
                           gsp_forecast_value.den * gsp_region.effective_capacity_watts),
                       3)
         IN  IF found = None
             THEN AddSubstationForecasts(substations, gsp_regions, kw, i + 1)
             ELSE IF substation.capacity_kw = 0
             THEN AddSubstationForecasts(substations, gsp_regions, kw, i + 1)
             ELSE IF gsp_region.effective_capacity_watts = 0
             THEN [forecast_values_kw |-> kw, err |-> "ZeroDivisionError"]
             ELSE AddSubstationForecasts(
                      substations, gsp_regions,
                      DictSet(kw, substation.substation_uuid, substation_forecast_value),
                      i + 1)

\* a step 5 that leaves the GSP forecasts in the reply
KeepGspForecasts(kw, gsp_regions) == kw

\* step 5: the forecasts of the GSP regions are taken out
RemoveGspForecasts(kw, gsp_regions) ==
    [k \in DOMAIN kw \ {gsp_regions[i].location_uuid : i \in DOMAIN gsp_regions} |->
        kw[k]]

\* The whole route.  a.substations is the get_substations reply,
\* a.all_gsp_regions the get_solar_regions(type="gsp") reply.
get_all_substation_forecast_at_one_timestamp(a) ==
    LET substations == a.substations
        gsp_ids == {substations[i].gsp_id : i \in DOMAIN substations}
        gsp_regions == SelectSeq(a.all_gsp_regions, LAMBDA region : region.gsp_id \in gsp_ids)
        forecasts == GetForecastForMultipleLocationsOneTimestamp(
                         [i \in DOMAIN gsp_regions |-> gsp_regions[i].location_uuid], a)
        added == AddSubstationForecasts(substations, gsp_regions,
                                        forecasts.forecast_values_kw, 1)
    IN  IF forecasts.err # "none"
        THEN [values |-> <<>>, err |-> forecasts.err]
        ELSE IF added.err # "none"
        THEN [values |-> <<>>, err |-> added.err]
        ELSE [values |-> RemoveGspForecasts(added.forecast_values_kw, gsp_regions),
              err    |-> "none"]

MaxSubstations == 2     \* substations in the get_substations reply

\* capacities and GSP ids of a substation; no GSP region has gsp_id 9
SubstationCapacityKW == {0, 1, 2}
SubstationGspIds == {1, 2, 9}

\* the capacities of the first GSP region
GspCapacityWatts == {0, 2000, 3000}

\* the fractions of a GetForecastAtTimestamp value, of a capacity of 5 kW
TimestampFraction == {Rat(1, 2), Rat(1, 3)}

InitAllSubstations ==
    /\ pc = "call"
    /\ op = "get_all_substation_forecast_at_one_timestamp"
    /\ \E n \in 0..MaxSubstations, watts \in GspCapacityWatts,
          second \in BOOLEAN, forecasters \in {<<>>, <<"blend">>},
          f1 \in {None} \cup {Some(f) : f \in TimestampFraction},
          f2 \in {None} \cup {Some(f) : f \in TimestampFraction} :
          \E caps \in [1..n -> SubstationCapacityKW], ids \in [1..n -> SubstationGspIds] :
              arg = [substations |->
                         [i \in 1..n |-> [substation_uuid |-> <<"substation", i>>,
                                          capacity_kw |-> caps[i],
                                          gsp_id |-> ids[i]]],
                     all_gsp_regions |->
                         <<[gsp_id |-> 1, location_uuid |-> <<"gsp", 1>>,
                            effective_capacity_watts |-> watts]>>
                         \o (IF second
                             THEN <<[gsp_id |-> 2, location_uuid |-> <<"gsp", 2>>,
                                     effective_capacity_watts |-> 2000]>>
                             ELSE <<>>),
                     forecasters |-> forecasters,
                     forecast_at_timestamp |->
                         (IF f1 = None THEN <<>>
                          ELSE <<[location_uuid |-> <<"gsp", 1>>, value_fraction |-> f1[1],
                                  effective_capacity_watts |-> 5000]>>)
                         \o (IF f2 = None THEN <<>>
                             ELSE <<[location_uuid |-> <<"gsp", 2>>, value_fraction |-> f2[1],
                                     effective_capacity_watts |-> 5000]>>)]
    /\ ret = NoRet

CallAllSubstations ==
    /\ pc = "call"
    /\ op = "get_all_substation_forecast_at_one_timestamp"
    /\ ret' = get_all_substation_forecast_at_one_timestamp(arg)
    /\ pc' = "done"
    /\ UNCHANGED <<op, arg>>

NextAllSubstations == CallAllSubstations

SpecAllSubstations == InitAllSubstations /\ [][NextAllSubstations]_vars

----------------------------------------------------------------------------
(* The predicted-power fetches of the two backends as one state machine:    *)
(* the data platform's, and quartzdb's behind the forecast route            *)

InitFetches == InitPredicted \/ InitForecastRoute

NextFetches == CallPredicted \/ CallForecastRoute

SpecFetches == InitFetches /\ [][NextFetches]_vars

----------------------------------------------------------------------------
(* The two timeseries routes of a region as one state machine *)

InitRoutes == InitForecastRoute \/ InitHistoricRoute

NextRoutes == CallForecastRoute \/ CallHistoricRoute

SpecRoutes == InitRoutes /\ [][NextRoutes]_vars

----------------------------------------------------------------------------
(* Properties of the predicted-power fetch *)

PredictedDone == pc = "done" /\ op = "get_predicted_power_production_for_location"

\* the requests of one rpc the handler made, in order
RequestsOf(rpc) == SelectSeq(ret.reqs, LAMBDA r : r.rpc = rpc)

\* the handler used horizon h: in every lookup's pivot and every timeseries request
UsedHorizon(h) ==
    /\ \A i \in 1..Len(RequestsOf("get_latest_forecasts")) :
          RequestsOf("get_latest_forecasts")[i].pivot_timestamp_utc = arg.start - h
    /\ \A i \in 1..Len(RequestsOf("get_forecast_as_timeseries")) :
          RequestsOf("get_forecast_as_timeseries")[i].horizon_mins = h

\* C1: in mode day_ahead the horizon used for the pivot time and for the
\* timeseries request is 540 minutes, for every forecast_horizon_minutes,
\* None included.
C1_DayAheadIs540 ==
    (PredictedDone /\ arg.forecast_horizon = "day_ahead") => UsedHorizon(540)

\* C2: in mode latest the horizon used is 0 for every forecast_horizon_minutes;
\* in mode horizon it is 0 when forecast_horizon_minutes is None and N when it is N.
C2_LatestAndHorizon ==
    /\ (PredictedDone /\ arg.forecast_horizon = "latest") => UsedHorizon(0)
    /\ (PredictedDone /\ arg.forecast_horizon = "horizon"
            /\ arg.forecast_horizon_minutes = None) => UsedHorizon(0)
    /\ \A n \in (0..MaxMinutes) \cup {540} :
          (PredictedDone /\ arg.forecast_horizon = "horizon"
              /\ arg.forecast_horizon_minutes = Some(n)) => UsedHorizon(n)

\* a call in mode horizon with a non-zero N that got as far as the timeseries request
C2_Witness ==
    /\ PredictedDone
    /\ arg.forecast_horizon = "horizon"
    /\ arg.forecast_horizon_minutes = Some(2)
    /\ Len(RequestsOf("get_forecast_as_timeseries")) = 1
    /\ RequestsOf("get_latest_forecasts")[1].pivot_timestamp_utc = arg.start - 2

\* the index in the reply of the first forecast with the maximum creation time
FirstNewest(forecasts) ==
    CHOOSE j \in 1..Len(forecasts) :
        /\ \A i \in 1..Len(forecasts) :
              forecasts[i].created_timestamp_utc <= forecasts[j].created_timestamp_utc
        /\ \A i \in 1..(j - 1) :
              forecasts[i].created_timestamp_utc < forecasts[j].created_timestamp_utc

\* C3: when the lookup returns forecasts, the forecaster of the timeseries
\* request is that of a forecast with the maximum creation time, and among
\* those of the one that comes first in the reply.
C3_NewestForecasterFirstWins ==
    (PredictedDone /\ Len(RequestsOf("get_forecast_as_timeseries")) > 0) =>
        /\ Len(arg.latest_forecasts) > 0
        /\ \A i \in 1..Len(RequestsOf("get_forecast_as_timeseries")) :
              RequestsOf("get_forecast_as_timeseries")[i].forecaster =
                  arg.latest_forecasts[FirstNewest(arg.latest_forecasts)].forecaster

\* three forecasts, an older one first, then two newest of different forecasters
C3_Witness ==
    /\ PredictedDone
    /\ Len(arg.latest_forecasts) = 3
    /\ arg.latest_forecasts[1].created_timestamp_utc < arg.latest_forecasts[2].created_timestamp_utc
    /\ arg.latest_forecasts[2].created_timestamp_utc = arg.latest_forecasts[3].created_timestamp_utc
    /\ arg.latest_forecasts[2].forecaster # arg.latest_forecasts[3].forecaster
    /\ Len(RequestsOf("get_forecast_as_timeseries")) = 1
    /\ RequestsOf("get_forecast_as_timeseries")[1].forecaster = arg.latest_forecasts[2].forecaster

\* C4: when the lookup at the pivot time returns no forecast, the fetch returns
\* the empty list, raises nothing and makes no timeseries request.
C4_NoForecastIsEmptyResult ==
    (PredictedDone /\ Len(RequestsOf("get_latest_forecasts")) > 0
        /\ Len(arg.latest_forecasts) = 0) =>
        /\ ret.values = <<>>
        /\ ret.err = "none"
        /\ Len(RequestsOf("get_forecast_as_timeseries")) = 0

\* the lookup was made, returned nothing, and the backend had values to give
C4_Witness ==
    /\ PredictedDone
    /\ Len(RequestsOf("get_latest_forecasts")) = 1
    /\ Len(arg.latest_forecasts) = 0
    /\ Len(arg.forecast_values) > 0
    /\ ret.values = <<>>
    /\ ret.err = "none"

----------------------------------------------------------------------------
(* Properties of the substation forecast *)

SubstationDone == pc = "done" /\ op = "get_substation_forecast"

\* C5: the scaled forecast has the length and order of the GSP forecast,
\* output[i].PowerKW = parent[i].PowerKW * (substation capacity / GSP capacity),
\* and output[i] has the Time and CreatedTime of parent[i].
C5_ScaledByCapacityRatio ==
    (SubstationDone /\ ret.scaling /\ ret.err = "none") =>
        /\ Len(ret.values) = Len(ret.forecast)
        /\ \A i \in 1..Len(ret.forecast) :
              /\ ret.values[i].PowerKW.num * arg.gsps[1].effective_capacity_watts =
                     ret.forecast[i].PowerKW * arg.substations[1].effective_capacity_watts
                         * ret.values[i].PowerKW.den
              /\ ret.values[i].PowerKW.den # 0
              /\ ret.values[i].Time = ret.forecast[i].Time
              /\ ret.values[i].CreatedTime = ret.forecast[i].CreatedTime

\* a two-point GSP forecast with different powers scaled down by one half
C5_Witness ==
    /\ SubstationDone /\ ret.scaling /\ ret.err = "none"
    /\ arg.substations[1].effective_capacity_watts = 1000
    /\ arg.gsps[1].effective_capacity_watts = 2000
    /\ Len(ret.forecast) = 2
    /\ ret.forecast[1].PowerKW = 3 /\ ret.forecast[2].PowerKW = 1
    /\ ret.forecast[1].Time > ret.forecast[2].Time
    /\ RatEq(ret.values[1].PowerKW, Rat(3, 2))
    /\ RatEq(ret.values[2].PowerKW, Rat(1, 2))

\* C6: scaling a non-empty series with a GSP capacity of zero fails with a
\* ConfigurationError, and with no other kind of error.
C6_ZeroCapacityIsConfigurationError ==
    (SubstationDone /\ ret.scaling /\ Len(ret.forecast) > 0
        /\ arg.gsps[1].effective_capacity_watts = 0) =>
        ret.err = "ConfigurationError"

----------------------------------------------------------------------------
(* Properties of the smoothing *)

SmoothDone == pc = "done" /\ op = "smooth_forecast"

\* strictly ascending by Time: sorted, and no timestamp twice
SortedUnique(values) ==
    \A i \in 1..(Len(values) - 1) : values[i].Time < values[i + 1].Time

Min(x, y) == IF x <= y THEN x ELSE y
Max(x, y) == IF x >= y THEN x ELSE y

\* the sum of PowerKW over the indices lo..hi of a series
PowerSum(values, lo, hi) ==
    SumRange([i \in 1..Len(values) |-> values[i].PowerKW], lo, hi)

\* trunc((sb / nb + sf / nf) / 2) = k, stated on integers
IsTruncatedHalfSum(k, sb, nb, sf, nf) ==
    LET num == sb * nf + sf * nb
        den == 2 * nb * nf
    IN  /\ num >= 0 => (k >= 0 /\ k * den <= num /\ num < (k + 1) * den)
        /\ num < 0 => (k <= 0 /\ k * den >= num /\ num > (k - 1) * den)

\* C8: for a series sorted ascending by time with unique timestamps,
\* output[i].PowerKW is the truncation to an integer of the average of the mean
\* of PowerKW over max(first, i-3)..i and the mean over i..min(last, i+3).
C8_SmoothedValue ==
    (SmoothDone /\ SortedUnique(arg)) =>
        /\ ret.err = "none"
        /\ Len(ret.values) = Len(arg)
        /\ \A i \in 1..Len(arg) :
              LET lo == Max(1, i - 3)
                  hi == Min(Len(arg), i + 3)
              IN  IsTruncatedHalfSum(ret.values[i].PowerKW,
                                     PowerSum(arg, lo, i), i - lo + 1,
                                     PowerSum(arg, i, hi), hi - i + 1)

\* five points at consecutive times: the last point's backward window is full
\* and leaves out the first point, the middle value is negative and not whole
C8_Witness ==
    /\ SmoothDone /\ SortedUnique(arg) /\ ret.err = "none"
    /\ Len(arg) = 5
    /\ [i \in 1..5 |-> arg[i].PowerKW] = <<7, -3, -3, 0, -3>>
    /\ [i \in 1..5 |-> ret.values[i].PowerKW] = <<3, 0, 0, 0, -2>>

\* C9: when every PowerKW of the input is the same integer c, every PowerKW
\* of the output is c, for every length of the series.
C9_ConstantSeries ==
    (SmoothDone /\ ret.err = "none") =>
        \A c \in SmoothPowers :
            (\A i \in 1..Len(arg) : arg[i].PowerKW = c) =>
                /\ Len(ret.values) = Len(arg)
                /\ \A i \in 1..Len(ret.values) : ret.values[i].PowerKW = c

\* a constant series longer than the window, smoothed
C9_Witness ==
    /\ SmoothDone /\ ret.err = "none"
    /\ Len(arg) = 5
    /\ \A i \in 1..5 : arg[i].PowerKW = 7 /\ ret.values[i].PowerKW = 7

C11_MalformedInputRejected ==
    (SmoothDone /\ ~SortedUnique(arg)) => ret.err # "none"

----------------------------------------------------------------------------
(* Frame of the transformations *)

\* the call was a transformation that ran to its end: for the substation
\* forecast, the scaling of a fetched GSP forecast by a non-zero capacity
Transformed(name) == pc = "done" /\ op = name /\ ret.err = "none"

\* the series a finished transformation was given, as they were before it
InputBefore ==
    IF op = "smooth_forecast" THEN arg
    ELSE IF op = "resample_generation" THEN arg.values
    ELSE IF op = "get_forecast_vs_actual" THEN <<ret.forecast, ret.actual>>
    ELSE ret.forecast

ScalingDone == Transformed("get_substation_forecast") /\ ret.scaling

LeavesInputAlone == ret.input_after = InputBefore /\ ~ret.same_list

C7_WitnessScaling ==
    /\ ScalingDone
    /\ Len(ret.forecast) = 1
    /\ ret.forecast[1].PowerKW = 3
    /\ RatEq(ret.input_after[1].PowerKW, Rat(3, 2))
    /\ ret.same_list

----------------------------------------------------------------------------
(* Properties of the forecast route *)

ForecastRouteDone == pc = "done" /\ op = "get_forecast_timeseries_route"

\* the rows of the store as the backend converts them, with no smoothing
Unsmoothed(rows) ==
    [i \in 1..Len(rows) |->
        [Time        |-> rows[i].start_utc,
         PowerKW     |-> IF rows[i].forecast_power_kw.num < 0
                         THEN 0
                         ELSE IntTrunc(rows[i].forecast_power_kw.num,
                                       rows[i].forecast_power_kw.den),
         CreatedTime |-> rows[i].created_utc]]

\* C12: for forecast_horizon = day_ahead the forecast route calls the backend
\* with smooth_flag = FALSE whatever smooth_flag the caller passed, and the
\* values it returns are the backend's unsmoothed values.
C12_DayAheadNeverSmoothed ==
    (ForecastRouteDone /\ arg.forecast_horizon = "day_ahead") =>
        /\ ~ret.db_call.smooth_flag
        /\ ret.err = "none" => ret.values = Unsmoothed(arg.forecast_values)

\* a day-ahead request that asked for smoothing and got the unsmoothed values,
\* which smoothing would have changed
C12_Witness ==
    /\ ForecastRouteDone /\ ret.err = "none"
    /\ arg.forecast_horizon = "day_ahead" /\ arg.smooth_flag
    /\ [i \in 1..Len(ret.values) |-> ret.values[i].PowerKW] = <<0, 9, 2>>
    /\ smooth_forecast(ret.values).values # ret.values

----------------------------------------------------------------------------
(* Properties of the resampling *)

ResampleDone == pc = "done" /\ op = "resample_generation"

HistoricRouteDone == pc = "done" /\ op = "get_historic_timeseries_route"

\* b is the start of the bucket of width s seconds (s > 0) that holds time t:
\* the multiple of s with b <= t < b + s
IsBucketStart(b, t, s) == b % s = 0 /\ b <= t /\ t < b + s

\* the samples of the bucket starting at b
SamplesOf(values, b, s) ==
    {i \in 1..Len(values) : IsBucketStart(b, values[i].Time, s)}

\* the sum of PowerKW over the samples of the bucket starting at b
BucketPowerSum(values, b, s) ==
    SumRange([i \in 1..Len(values) |->
                 IF i \in SamplesOf(values, b, s) THEN values[i].PowerKW ELSE 0],
             1, Len(values))

\* C13: for a positive interval every sample lies in the bucket of an output
\* point (bucket start = floor(seconds / width) * width), and every output
\* point's PowerKW is the mean of PowerKW over exactly the samples of its
\* bucket, or 0 when that mean is negative; the samples 00:00=1, 00:08=2,
\* 00:22=3, 01:30=4, 01:31=5, 01:32=6 at 15 minutes give 00:00 -> 1.5,
\* 00:15 -> 3.0, 01:30 -> 5.0.
C13_BucketMeans ==
    /\ (ResampleDone /\ arg.interval_minutes > 0) =>
          LET s == arg.interval_minutes * 60
          IN  /\ ret.err = "none"
              /\ \A i \in 1..Len(arg.values) :
                    \E k \in 1..Len(ret.values) :
                        IsBucketStart(ret.values[k].Time, arg.values[i].Time, s)
              /\ \A k \in 1..Len(ret.values) :
                    LET b == ret.values[k].Time
                        n == Cardinality(SamplesOf(arg.values, b, s))
                        sum == BucketPowerSum(arg.values, b, s)
                    IN  /\ n > 0
                        /\ RatEq(ret.values[k].PowerKW,
                                 IF sum < 0 THEN Rat(0, 1) ELSE Rat(sum, n))
    /\ (ResampleDone /\ arg = ResampleExample) =>
          /\ [k \in 1..Len(ret.values) |-> ret.values[k].Time] = <<0, 900, 5400>>
          /\ RatEq(ret.values[1].PowerKW, Rat(3, 2))
          /\ RatEq(ret.values[2].PowerKW, Rat(3, 1))
          /\ RatEq(ret.values[3].PowerKW, Rat(5, 1))

\* the example, resampled to three points
C13_Witness ==
    /\ ResampleDone /\ arg = ResampleExample
    /\ ret.err = "none" /\ Len(ret.values) = 3

\* the bucket starts the samples fall into, for a width of s seconds
BucketStarts(values, s) ==
    {values[i].Time - (values[i].Time % s) : i \in 1..Len(values)}

\* C14: for a positive interval and any order of the input the output has
\* exactly one point per bucket that holds a sample, strictly ascending by
\* bucket start, and no point for a bucket without samples; an empty input
\* gives an empty output.
C14_OnePointPerNonEmptyBucket ==
    /\ (ResampleDone /\ arg.interval_minutes > 0) =>
          LET starts == BucketStarts(arg.values, arg.interval_minutes * 60)
          IN  /\ ret.err = "none"
              /\ Len(ret.values) = Cardinality(starts)
              /\ {ret.values[k].Time : k \in 1..Len(ret.values)} = starts
              /\ \A k \in 1..(Len(ret.values) - 1) :
                    ret.values[k].Time < ret.values[k + 1].Time
    /\ (ResampleDone /\ arg.values = <<>>) => (ret.err = "none" /\ ret.values = <<>>)

\* samples out of time order with an empty minute between them: two points,
\* in time order, and none for the empty minute
C14_Witness ==
    /\ ResampleDone /\ arg.interval_minutes = 1
    /\ [i \in 1..Len(arg.values) |-> arg.values[i].Time] = <<120, 0, 30>>
    /\ [k \in 1..Len(ret.values) |-> ret.values[k].Time] = <<0, 120>>

\* C15: for every input and every positive interval every output PowerKW
\* is >= 0.
C15_NonNegativeOutput ==
    (ResampleDone /\ arg.interval_minutes > 0) =>
        \A k \in 1..Len(ret.values) :
            ret.values[k].PowerKW.num >= 0 /\ ret.values[k].PowerKW.den > 0

\* a bucket whose samples average below zero, reported as 0
C15_Witness ==
    /\ ResampleDone /\ arg.interval_minutes = 1
    /\ arg.values = <<[Time |-> 0, PowerKW |-> -2], [Time |-> 30, PowerKW |-> 1]>>
    /\ Len(ret.values) = 1
    /\ RatEq(ret.values[1].PowerKW, Rat(0, 1))

\* C16: resampling with interval_minutes <= 0 fails with a ConfigurationError
\* for every input, called on its own or through the generation route, which
\* passes resample_minutes on as it is.
C16_NonPositiveIntervalIsConfigurationError ==
    /\ (ResampleDone /\ arg.interval_minutes <= 0) => ret.err = "ConfigurationError"
    /\ (HistoricRouteDone /\ arg.db.err = "none" /\ arg.resample_minutes # None
            /\ arg.resample_minutes[1] <= 0) => ret.err = "ConfigurationError"

----------------------------------------------------------------------------
(* Properties of the comparison of forecast and actual generation.  The      *)
(* forecast is the reply of the backend; the actual samples are those of     *)
(* the generation response (ret.actual): the samples with Time < now.        *)

CompareDone == pc = "done" /\ op = "get_forecast_vs_actual" /\ ret.err = "none"

\* comparison c is the comparison of forecast point f
ComparisonOf(c, f) ==
    /\ c.time = f.Time
    /\ c.forecast_power_kw = f.PowerKW
    /\ c.forecast_created_time = f.CreatedTime

\* C17: the comparison list holds exactly one comparison for every forecast
\* point with time < now, matched or not, and none for a forecast point with
\* time >= now.
C17_OnlyElapsedForecasts ==
    CompareDone =>
        LET forecast == arg.predicted.values
        IN  /\ \A i \in 1..Len(forecast) :
                  Cardinality({k \in 1..Len(ret.values) :
                                  ComparisonOf(ret.values[k], forecast[i])})
                  = IF forecast[i].Time < arg.now
                    THEN Cardinality({j \in 1..Len(forecast) : forecast[j] = forecast[i]})
                    ELSE 0
            /\ \A k \in 1..Len(ret.values) :
                  \E i \in 1..Len(forecast) : ComparisonOf(ret.values[k], forecast[i])

\* at now = 60 the forecast point of 60 is left out and the one of 0 is
\* compared, with no actual to match
C17_Witness ==
    /\ CompareDone /\ arg.now = 60
    /\ [i \in 1..Len(arg.predicted.values) |-> arg.predicted.values[i].Time] = <<60, 0>>
    /\ [k \in 1..Len(ret.values) |-> ret.values[k].time] = <<0>>
    /\ ret.values[1].error_kw = None

\* the comparisons of the forecast points at time t all have an error
MatchedAt(t) ==
    \A k \in 1..Len(ret.values) : ret.values[k].time = t => ret.values[k].error_kw # None

\* C18 as stated: a forecast point at time T < now and an actual sample at T
\* plus up to 59 seconds are matched, and the comparison for T has an error.
C18_JitterUpTo59Matched ==
    CompareDone =>
        \A i \in 1..Len(arg.predicted.values), j \in 1..Len(ret.actual) :
            LET T == arg.predicted.values[i].Time
            IN  (T < arg.now /\ T <= ret.actual[j].Time /\ ret.actual[j].Time <= T + 59)
                    => MatchedAt(T)

\* m is the whole minute of time t
IsMinuteOf(m, t) == m % 60 = 0 /\ m <= t /\ t < m + 60

\* C18 amended: a forecast point at time T < now and an actual sample in the
\* same whole minute as T are matched, and the comparison for T has an error;
\* for T on a whole minute these are the samples at T plus up to 59 seconds.
\* A sample of the next minute is not matched, however close to T.
C18_SameMinuteMatched ==
    CompareDone =>
        \A i \in 1..Len(arg.predicted.values) :
            LET T == arg.predicted.values[i].Time
                same_minute == {j \in 1..Len(ret.actual) :
                                   \E m \in 0..T : /\ IsMinuteOf(m, T)
                                                   /\ IsMinuteOf(m, ret.actual[j].Time)}
            IN  T < arg.now =>
                    /\ same_minute # {} => MatchedAt(T)
                    /\ same_minute = {} =>
                           \A k \in 1..Len(ret.values) :
                               ret.values[k].time = T => ret.values[k].error_kw = None

\* a forecast point at 0 matched with the sample 59 seconds later
C18_Witness ==
    /\ CompareDone
    /\ Len(arg.predicted.values) = 1 /\ arg.predicted.values[1].Time = 0
    /\ Len(ret.actual) = 1 /\ ret.actual[1].Time = 59
    /\ Len(ret.values) = 1 /\ ret.values[1].error_kw # None

\* C19: in a comparison whose matched actual has PowerKW <= 0 percent_error is
\* null while error_kw and absolute_error_kw are populated; when the matched
\* actual has PowerKW > 0, percent_error = error_kw / actual_power_kw * 100.
C19_PercentErrorGuard ==
    CompareDone =>
        \A k \in 1..Len(ret.values) :
            LET c == ret.values[k]
            IN  c.actual_power_kw # None =>
                    IF c.actual_power_kw[1] <= 0
                    THEN /\ c.percent_error = None
                         /\ c.error_kw # None
                         /\ c.absolute_error_kw # None
                    ELSE /\ c.percent_error # None
                         /\ c.error_kw # None
                         /\ RatEq(c.percent_error[1],
                                  Rat(c.error_kw[1] * 100, c.actual_power_kw[1]))

\* one comparison against an actual of -1 (error known, no percent error) and
\* one against an actual of 3 (percent error -200/3)
C19_Witness ==
    /\ CompareDone /\ Len(ret.values) = 2
    /\ ret.values[1].actual_power_kw = Some(-1)
    /\ ret.values[1].error_kw = Some(6)
    /\ ret.values[1].absolute_error_kw = Some(6)
    /\ ret.values[1].percent_error = None
    /\ ret.values[2].actual_power_kw = Some(3)
    /\ ret.values[2].error_kw = Some(-2)
    /\ RatEq(ret.values[2].percent_error[1], Rat(-200, 3))

\* C20: in every comparison actual_power_kw, error_kw and absolute_error_kw
\* are all non-null exactly when an actual sample lies in the whole minute of
\* the forecast's time; then actual_power_kw is the power of such a sample,
\* error_kw = forecast_power_kw - actual_power_kw and absolute_error_kw =
\* |error_kw|; otherwise all three and percent_error are null.
C20_DerivedFieldsIffMatched ==
    CompareDone =>
        \A k \in 1..Len(ret.values) :
            LET c == ret.values[k]
                same_minute == {j \in 1..Len(ret.actual) :
                                   \E m \in 0..c.time : /\ IsMinuteOf(m, c.time)
                                                        /\ IsMinuteOf(m, ret.actual[j].Time)}
            IN  IF same_minute # {}
                THEN /\ c.actual_power_kw # None
                     /\ c.error_kw # None
                     /\ c.absolute_error_kw # None
                     /\ \E j \in same_minute : c.actual_power_kw[1] = ret.actual[j].PowerKW
                     /\ c.error_kw[1] = c.forecast_power_kw - c.actual_power_kw[1]
                     /\ c.absolute_error_kw[1] =
                            IF c.error_kw[1] < 0 THEN -c.error_kw[1] ELSE c.error_kw[1]
                ELSE /\ c.actual_power_kw = None
                     /\ c.error_kw = None
                     /\ c.absolute_error_kw = None
                     /\ c.percent_error = None

\* a forecast of 1 against an actual of 3 in its minute (error -2, absolute
\* error 2), and a forecast point with no actual in its minute
C20_Witness ==
    /\ CompareDone /\ Len(ret.values) = 2
    /\ ret.values[1].time = 30
    /\ ret.values[1].error_kw = None /\ ret.values[1].actual_power_kw = None
    /\ ret.values[2].time = 60
    /\ ret.values[2].actual_power_kw = Some(3)
    /\ ret.values[2].error_kw = Some(-2)
    /\ ret.values[2].absolute_error_kw = Some(2)

\* C21: the comparison list is sorted ascending by time, for every order of
\* the forecast and of the actual samples.
C21_ComparisonsSortedByTime ==
    CompareDone =>
        \A k \in 1..(Len(ret.values) - 1) : ret.values[k].time <= ret.values[k + 1].time

\* a forecast given latest first, compared earliest first
C21_Witness ==
    /\ CompareDone
    /\ [i \in 1..Len(arg.predicted.values) |-> arg.predicted.values[i].Time] = <<60, 0>>
    /\ [k \in 1..Len(ret.values) |-> ret.values[k].time] = <<0, 60>>

\* no comparison has a matched actual
NoneMatched == \A k \in 1..Len(ret.values) : ret.values[k].error_kw = None

\* C22: with include_summary = TRUE and no comparison matched the summary is
\* null; with include_summary = FALSE the summary is always null.
C22_SummaryNullWhenEmpty ==
    CompareDone =>
        /\ (arg.include_summary /\ NoneMatched) => ret.summary = None
        /\ ~arg.include_summary => ret.summary = None

\* a summary asked for over two comparisons, none of them matched
C22_Witness ==
    /\ CompareDone /\ arg.include_summary
    /\ Len(ret.values) = 2 /\ NoneMatched
    /\ ret.summary = None

\* x <= y for two rationals
RatLeq(x, y) == x.num * y.den <= y.num * x.den

\* the absolute value of an error
Magnitude(e) == IF e < 0 THEN -e ELSE e

\* C23: the summary is computed over the matched comparisons only:
\* sample_count is the number of comparisons with an error_kw, max_error_kw
\* and min_error_kw are the largest and the smallest absolute error, mae_kw
\* is the mean absolute error and me_kw the mean signed error; hence
\* 0 <= min_error_kw <= mae_kw <= max_error_kw and |me_kw| <= mae_kw.
C23_SummaryOverMatched ==
    (CompareDone /\ ret.summary # None) =>
        LET s == ret.summary[1]
            matched == {k \in 1..Len(ret.values) : ret.values[k].error_kw # None}
            n == Cardinality(matched)
            err(k) == IF k \in matched THEN ret.values[k].error_kw[1] ELSE 0
            errors == [k \in 1..Len(ret.values) |-> err(k)]
            magnitudes == [k \in 1..Len(ret.values) |-> Magnitude(err(k))]
        IN  /\ n > 0
            /\ s.sample_count = n
            /\ \E k \in matched : s.max_error_kw = magnitudes[k]
            /\ \A k \in matched : magnitudes[k] <= s.max_error_kw
            /\ \E k \in matched : s.min_error_kw = magnitudes[k]
            /\ \A k \in matched : s.min_error_kw <= magnitudes[k]
            /\ RatEq(s.mae_kw, Rat(SumRange(magnitudes, 1, Len(magnitudes)), n))
            /\ RatEq(s.me_kw, Rat(SumRange(errors, 1, Len(errors)), n))
            /\ 0 <= s.min_error_kw
            /\ RatLeq(Rat(s.min_error_kw, 1), s.mae_kw)
            /\ RatLeq(s.mae_kw, Rat(s.max_error_kw, 1))
            /\ RatLeq(s.me_kw, s.mae_kw)
            /\ RatLeq(Rat(-s.mae_kw.num, s.mae_kw.den), s.me_kw)

\* errors -2 and 6: two samples, absolute errors 2 and 6 (the smallest is 2,
\* not -2), mean absolute error 4, mean error 2
C23_Witness ==
    /\ CompareDone /\ ret.summary # None
    /\ Len(ret.values) = 2
    /\ {ret.values[k].error_kw : k \in 1..2} = {Some(-2), Some(6)}
    /\ ret.summary[1].sample_count = 2
    /\ ret.summary[1].min_error_kw = 2
    /\ ret.summary[1].max_error_kw = 6
    /\ RatEq(ret.summary[1].mae_kw, Rat(4, 1))
    /\ RatEq(ret.summary[1].me_kw, Rat(2, 1))

----------------------------------------------------------------------------
(* Failures of the backend, as the routes hand them on *)

\* C24: a failure raised by the backend during a predicted-power or an
\* actual-power fetch (not found, access denied, transient failure) reaches
\* the caller of the route unchanged.
C24_BackendFailureUnchanged ==
    /\ (ForecastRouteDone /\ ~arg.site_found) => ret.err = "HTTPException204"
    /\ (HistoricRouteDone /\ arg.db.err # "none") => ret.err = arg.db.err

----------------------------------------------------------------------------
(* The sign of the predicted power *)

\* C25: every PredictedPower returned by a backend's predicted-power fetch
\* has PowerKW >= 0, negative raw values included, smoothed or not.
C25_PredictedPowerNonNegative ==
    (PredictedDone \/ ForecastRouteDone) =>
        \A i \in 1..Len(ret.values) : ret.values[i].PowerKW >= 0

----------------------------------------------------------------------------
(* Properties of the site operations *)

SiteReadDone == pc = "done" /\ op \in {"get_site_forecast", "get_site_generation"}

\* the caller has no access to the site
SiteDenied ==
    IF arg.backend = "dataplatform"
    THEN ~arg.locations_visible
    ELSE arg.site_uuid \notin arg.user_sites

\* the requests that serve the access check
AccessCheckRpcs == {"list_locations", "get_user_by_email"}

\* C26: get_site_forecast and get_site_generation, called by a user without
\* access to the site, end in an HTTPException and return no values, and the
\* only requests made are those of the access check: no forecast or
\* observation request is made for a denied user.
C26_DeniedUserGetsNoData ==
    (SiteReadDone /\ SiteDenied) =>
        /\ ret.err \in {"HTTPException403", "HTTPException404"}
        /\ ret.values = <<>>
        /\ Len(ret.reqs) = 1
        /\ \A i \in DOMAIN ret.reqs : ret.reqs[i].rpc \in AccessCheckRpcs

\* a denied user asks for the generation of a site the store has rows for
C26_Witness ==
    /\ SiteReadDone
    /\ SiteDenied
    /\ op = "get_site_generation"
    /\ arg.backend = "quartzdb"
    /\ Len(arg.rows) = 2
    /\ ret.err = "HTTPException403"

PostDone == pc = "done" /\ op = "post_site_generation"

\* the posted values above site capacity times the capacity factor
OverCapacity ==
    {i \in DOMAIN arg.generation :
        ~RatLeq(Rat(arg.generation[i].PowerKW, 1),
                RatMulInt(arg.site_capacity_kw, arg.capacity_factor))}

\* C27: post_site_generation is all-or-nothing.  When any posted value is
\* above the site's capacity_kw times the capacity factor, nothing is inserted
\* or committed, and the call of a user with access fails with HTTP 422;
\* values are inserted only when the user has access and every posted value
\* passes the check, and then all of them are inserted and committed.
C27_PostAllOrNothing ==
    PostDone =>
        /\ OverCapacity # {} => (ret.inserted = <<>> /\ ~ret.committed)
        /\ (OverCapacity # {} /\ ~SiteDenied) => ret.err = "HTTPException422"
        /\ (ret.inserted # <<>> \/ ret.committed) =>
               /\ ~SiteDenied
               /\ OverCapacity = {}
               /\ ret.err = "none"
               /\ Len(ret.inserted) = Len(arg.generation)
               /\ \A i \in DOMAIN arg.generation :
                      /\ ret.inserted[i].power_kw = arg.generation[i].PowerKW
                      /\ ret.inserted[i].start_utc = arg.generation[i].Time

\* a user with access posts one value within the limit and then one above it
C27_Witness ==
    /\ PostDone
    /\ ~SiteDenied
    /\ Len(arg.generation) = 2
    /\ OverCapacity = {2}
    /\ ret.err = "HTTPException422"
    /\ ret.inserted = <<>>

----------------------------------------------------------------------------
(* Properties of the audit middleware *)

AuditDone == pc = "done" /\ op = "dispatch"

\* C28: for every request whose method is not OPTIONS and whose application
\* state holds a database client, save_api_call_to_db is called exactly once,
\* with the request path plus '?query' when there is a query string; OPTIONS
\* requests are never logged, and the handler's response is returned unchanged.
C28_EveryRequestLoggedOnce ==
    AuditDone =>
        /\ ret.response = arg.response
        /\ arg.method = "OPTIONS" => ret.saved = <<>>
        /\ (arg.method # "OPTIONS" /\ arg.db_instance # None) =>
               /\ Len(ret.saved) = 1
               /\ ret.saved[1].url = AuditUrl(arg.path, arg.query)

\* what the middleware does do: the response is the handler's and no request
\* is ever saved
C28_ResponseUnchangedNothingSaved ==
    AuditDone => (ret.response = arg.response /\ ret.saved = <<>>)

----------------------------------------------------------------------------
(* The resampling and the order of its input *)

\* the list xs read in the order p, a permutation of its indices
Reordered(xs, p) == [i \in 1..Len(xs) |-> xs[p[i]]]

----------------------------------------------------------------------------
(* Properties of the forecast of all substations at one timestamp *)

AllSubstationsDone ==
    pc = "done" /\ op = "get_all_substation_forecast_at_one_timestamp"

\* the GSP regions used for scaling: those a substation names
UsedGspRegions ==
    {k \in DOMAIN arg.all_gsp_regions :
        \E i \in DOMAIN arg.substations :
            arg.substations[i].gsp_id = arg.all_gsp_regions[k].gsp_id}

\* the forecast of a GSP region in kW as the backend reports it, 0 when the
\* data platform has no value for it
GspForecastKW(k) ==
    LET held == {j \in DOMAIN arg.forecast_at_timestamp :
                    arg.forecast_at_timestamp[j].location_uuid
                        = arg.all_gsp_regions[k].location_uuid}
        v == arg.forecast_at_timestamp[CHOOSE j \in held : TRUE]
    IN  IF held = {} THEN Rat(0, 1)
        ELSE Round(RatDivInt(RatMulInt(v.effective_capacity_watts, v.value_fraction),
                             1000), 2)

\* C30: in the returned mapping no key is the location uuid of a GSP region
\* used for scaling; every substation with non-zero capacity_kw whose gsp_id
\* matches a listed GSP region has the value
\* round(gsp_forecast_kw * capacity_kw / (effective_capacity_watts / 1000), 3),
\* gsp_forecast_kw being 0 when the GSP has no forecast value; a substation
\* with capacity 0 or without a matching GSP has no entry.
C30_SubstationsScaledGspsRemoved ==
    (AllSubstationsDone /\ ret.err = "none") =>
        /\ \A k \in UsedGspRegions :
               arg.all_gsp_regions[k].location_uuid \notin DOMAIN ret.values
        /\ \A i \in DOMAIN arg.substations :
               LET substation == arg.substations[i]
                   gsps == {k \in DOMAIN arg.all_gsp_regions :
                               arg.all_gsp_regions[k].gsp_id = substation.gsp_id}
               IN  IF substation.capacity_kw # 0 /\ gsps # {}
                   THEN /\ substation.substation_uuid \in DOMAIN ret.values
                        /\ \E k \in gsps :
                               RatEq(ret.values[substation.substation_uuid],
                                     Round(RatMulInt(
                                               substation.capacity_kw * 1000,
                                               RatDivInt(GspForecastKW(k),
                                                         arg.all_gsp_regions[k].effective_capacity_watts)),
                                           3))
                   ELSE substation.substation_uuid \notin DOMAIN ret.values

\* a substation of 1 kW under a GSP of 3 kW forecast at 1.67 kW gets 0.557 kW;
\* the second substation names a GSP that is not listed and gets nothing
C30_Witness ==
    /\ AllSubstationsDone
    /\ ret.err = "none"
    /\ Len(arg.substations) = 2
    /\ arg.substations[1].capacity_kw = 1
    /\ arg.substations[1].gsp_id = 1
    /\ arg.substations[2].gsp_id = 9
    /\ arg.all_gsp_regions[1].effective_capacity_watts = 3000
    /\ DOMAIN ret.values = {<<"substation", 1>>}
    /\ ret.values[<<"substation", 1>>] = Rat(557, 1000)

=============================================================================
